---------------------------- MODULE Spec2Model ----------------------------
(***************************************************************************)
(* A model of jsonqlite: the asynchronous document table (HookLoopTable),  *)
(* its typed-model batch writer (HookLoopModel.bulk_save) and the          *)
(* synchronous, thread-per-connection store (DuctTapeDB).                  *)
(*                                                                         *)
(* The relational engine is modelled by what the SQL the code issues does  *)
(* to one table  (id INTEGER PRIMARY KEY AUTOINCREMENT, data JSON):        *)
(* a table value is [rows, seq] where rows maps an id to its payload (or   *)
(* NoRow) and seq is the table's sqlite_sequence entry, the largest rowid  *)
(* ever inserted.                                                          *)
(***************************************************************************)
EXTENDS Integers, Sequences, FiniteSets, TLC

(***************************************************************************)
(* Bounds.                                                                 *)
(***************************************************************************)
\* the engine's largest rowid (2^63 - 1 in SQLite), scaled down
MaxId == 3
\* the longest batch handed to bulk_save
MaxBatch == 2
\* the number of other asyncio tasks sharing the connection
NTasks == 2
\* the number of threads using DuctTapeDB
NThreads == 2
\* the number of connections sqlite3.connect makes in one behaviour
MaxConns == 2
\* the number of table operations the other tasks start in one behaviour
MaxOps == 2

Ids == 1..MaxId
\* Optional[int] = None: a value outside the integers the engine stores
None == -1
\* an id a model may carry that the engine cannot bind (Python int too large)
TooLarge == MaxId + 1
NoRow == <<>>
Tasks == 1..NTasks
Threads == 1..NThreads
\* the one DuctTapeDB object the threads share
Handles == {1}
\* the task that runs beside bulk_save
Peers == {1}

Max(a, b) == IF a >= b THEN a ELSE b
Min(a, b) == IF a <= b THEN a ELSE b
SetMax(S) == CHOOSE x \in S : \A y \in S : y <= x

RECURSIVE Reverse(_)
Reverse(s) == IF s = <<>> THEN <<>> ELSE Append(Reverse(Tail(s)), Head(s))

\* the payload of the i-th model of the batch, and of task k's document:
\* payloads are opaque to the code, so each writer's are told apart
BulkData(i) == <<"bulk", i>>
TaskData(k) == <<"task", k>>

(***************************************************************************)
(* The engine: one table with an AUTOINCREMENT primary key.                *)
(***************************************************************************)
EmptyTable == [rows |-> [i \in Ids |-> NoRow], seq |-> 0]
RowIds(tbl) == {i \in DOMAIN tbl.rows : tbl.rows[i] # NoRow}
MaxRowid(tbl) == IF RowIds(tbl) = {} THEN 0 ELSE SetMax(RowIds(tbl))

\* AUTOINCREMENT: one more than the largest rowid ever used in the table
NextRowid(tbl) == Max(tbl.seq, MaxRowid(tbl)) + 1
\* SQLITE_FULL: the largest rowid has been used
TableFull(tbl) == NextRowid(tbl) \notin DOMAIN tbl.rows

\* INSERT ... (data) VALUES (json(?))  /  INSERT ... VALUES (NULL, json(?))
InsertAuto(tbl, data) ==
    [rows |-> [tbl.rows EXCEPT ![NextRowid(tbl)] = data], seq |-> NextRowid(tbl)]

\* on a conflict the row is left as it is (ON CONFLICT DO NOTHING)
UpsertAt_KeepsOld(tbl, id, data) ==
    [rows |-> [tbl.rows EXCEPT ![id] = IF @ = NoRow THEN data ELSE @],
     seq |-> IF tbl.seq >= id THEN tbl.seq ELSE id]

\* INSERT ... VALUES (id, json(?)) ON CONFLICT (id) DO UPDATE SET data = json(?)
UpsertAt(tbl, id, data) ==
    [rows |-> [tbl.rows EXCEPT ![id] = data], seq |-> Max(tbl.seq, id)]

\* the statement deletes nothing
DeleteAt_Nothing(tbl, id) == tbl

\* DELETE FROM table WHERE id = ?
DeleteAt(tbl, id) == [tbl EXCEPT !.rows[id] = NoRow]

\* SELECT id FROM table ORDER BY id DESC LIMIT n, over the ids in S
RECURSIVE TopIds(_, _)
TopIds(S, n) ==
    IF n = 0 \/ S = {} THEN <<>>
    ELSE <<SetMax(S)>> \o TopIds(S \ {SetMax(S)}, n - 1)

SelectTopIds(tbl, n) == TopIds(RowIds(tbl), n)

\* one parameter tuple of the upsert statement: the driver cannot bind it
\* (OverflowError), or the engine cannot execute it (SQLITE_FULL)
BindFails(p) == p.id = TooLarge
EngineFails(tbl, p) == p.id = None /\ TableFull(tbl)
ParamFails(tbl, p) == BindFails(p) \/ EngineFails(tbl, p)

\* the rowid of the row the statement writes
ParamRowid(tbl, p) == IF p.id = None THEN NextRowid(tbl) ELSE p.id

ApplyParam(tbl, p) ==
    IF p.id = None THEN InsertAuto(tbl, p.data) ELSE UpsertAt(tbl, p.id, p.data)

\* executemany: the statement is run once per parameter tuple, in order; the
\* first tuple that fails ends the call and leaves the earlier rows written
\* (rowids: the rowid each executed tuple wrote; engine: the engine, not the
\* driver, reported the failure)
RECURSIVE ExecuteManyFrom(_, _, _)
ExecuteManyFrom(tbl, ps, rowids) ==
    IF ps = <<>> THEN [tbl |-> tbl, ok |-> TRUE, engine |-> FALSE, rowids |-> rowids]
    ELSE IF ParamFails(tbl, Head(ps))
    THEN [tbl |-> tbl, ok |-> FALSE, engine |-> ~BindFails(Head(ps)), rowids |-> rowids]
    ELSE ExecuteManyFrom(ApplyParam(tbl, Head(ps)), Tail(ps),
                         Append(rowids, ParamRowid(tbl, Head(ps))))
ExecuteMany(tbl, ps) == ExecuteManyFrom(tbl, ps, <<>>)

(***************************************************************************)
(* State of the asynchronous variant: one aiosqlite connection shared by   *)
(* the task running bulk_save and the other tasks.                         *)
(***************************************************************************)
VARIABLES
    disk,        \* the committed table
    view,        \* the table as the shared connection sees it
    inTxn,       \* the connection has an open transaction
    models,      \* bulk_save's argument: a sequence of [id, data], mutated
    bpc,         \* where bulk_save is
    params,      \* bulk_save's params list
    new_models,  \* bulk_save's new_models list (positions in models)
    result,      \* the rows of bulk_save's id query, as its cursor yields them
    bret,        \* bulk_save's return value
    tpc,         \* tpc[k]: where task k is
    tdoc,        \* tdoc[k]: the id of the document task k handles
    tcursor,     \* tcursor[k]: lastrowid of the cursor of task k's statement
    tret,        \* tret[k]: the value task k's last upsert returned
    nops,        \* table operations started so far
    generated,   \* the rowid the engine wrote for each tuple executemany ran
    window       \* another task changed or deleted a row by id while bulk_save ran

asyncVars == <<disk, view, inTxn, models, bpc, params, new_models, result,
               bret, tpc, tdoc, tcursor, tret, nops, generated, window>>

(***************************************************************************)
(* State of the synchronous variant: DuctTapeDB handles, their class-level *)
(* threading.local, and the connections sqlite3.connect has made.          *)
(***************************************************************************)
VARIABLES
    handle,      \* handle[h]: the DuctTapeDB object h: [made, path, wal]
    local,       \* local[s]: DuctTapeDB._local.connection in slot s, or NoConn
    conns,       \* the connections created so far, in creation order
    out,         \* how the last call ended, and in which thread
    wlock,       \* the connection holding the database's write lock, or NoConn
    work,        \* the table as the write transaction has it
    wpc,         \* wpc[w]: where concurrent writer w is
    wid,         \* wid[w]: the id of the document writer w upserts
    wret,        \* wret[w]: what writer w's upsert returned
    variant      \* which concurrent writers run: "threads" or "tasks"

syncVars == <<handle, local, conns, out, wlock, work>>
writerVars == <<wpc, wid, wret, variant>>

(***************************************************************************)
(* State of one caller using the document operations one after another, on *)
(* the synchronous table (DuctTapeDB) or on the asynchronous one            *)
(* (HookLoopTable); the table and its connection are disk, view and inTxn.  *)
(***************************************************************************)
VARIABLES
    api,         \* which table the caller uses: "sync" or "async"
    call,        \* the last call: its arguments and how it ended
    lastins,     \* the connection's last insert rowid
    nfail,       \* the calls in which the engine has raised so far
    scall        \* the search call: its arguments and how it ended

(***************************************************************************)
(* The schema of the database and the callers that initialize it.          *)
(***************************************************************************)
VARIABLES
    schema,      \* the tables and the indexes, in the order of their creation
    ipc,         \* each initializer's position in its call
    itodo,       \* the index fields its call has still to create
    iout,        \* how its last call ended
    asked,       \* the indexes the calls begun so far have asked for
    ncalls       \* the calls of the initializers so far

schemaVars == <<schema, ipc, itodo, iout, asked, ncalls>>

docVars == <<api, call, lastins, nfail, scall, schemaVars>>

vars == <<asyncVars, syncVars, writerVars, docVars>>

BulkIdle == bpc = "idle"
BulkInFlight == bpc \in {"begin", "executemany", "select", "fetchall", "aexit", "commit"}

\* the batches: every sequence of 1..MaxBatch models, each with no id, an
\* id of the table's range, or an id the engine cannot store
ModelIds == Ids \cup {None, TooLarge}
RECURSIVE IdSeqs(_)
IdSeqs(n) ==
    IF n = 0 THEN {<<>>}
    ELSE {Append(s, i) : s \in IdSeqs(n - 1), i \in ModelIds}
Batches ==
    UNION {{[i \in 1..n |-> [id |-> s[i], data |-> BulkData(i)]] : s \in IdSeqs(n)}
           : n \in 1..MaxBatch}

\* the asynchronous variant with nothing running
InitAsyncIdle ==
    /\ inTxn = FALSE
    /\ models = <<>>
    /\ bpc = "idle"
    /\ params = <<>>
    /\ new_models = <<>>
    /\ result = <<>>
    /\ bret = <<>>
    /\ tpc = [k \in Tasks |-> "idle"]
    /\ tdoc = [k \in Tasks |-> None]
    /\ tcursor = [k \in Tasks |-> None]
    /\ tret = [k \in Tasks |-> None]
    /\ nops = 0
    /\ generated = <<>>
    /\ window = FALSE

\* HookLoopTable.initialize / _initialize_table on a new database
InitAsync ==
    /\ disk = EmptyTable
    /\ view = EmptyTable
    /\ InitAsyncIdle

\* the synchronous variant before any handle is constructed
NoConn == 0
NoHandle == [made |-> FALSE, path |-> "", wal |-> FALSE]
NoCall == [thread |-> 0, kind |-> "", conn |-> NoConn, msg |-> "", detail |-> "",
           created |-> NoConn]
InitSyncIdle ==
    /\ handle = [h \in Handles |-> NoHandle]
    /\ local = [t \in Threads |-> NoConn]
    /\ conns = <<>>
    /\ out = NoCall
    /\ wlock = NoConn
    /\ work = EmptyTable
InitWritersIdle ==
    /\ wpc = [w \in {} |-> ""]
    /\ wid = [w \in {} |-> None]
    /\ wret = [w \in {} |-> None]
    /\ variant = ""

\* no document operation called yet
NoData == [none |-> TRUE]
NoDoc == [none |-> TRUE]
NoDocCall == [op |-> "", id |-> None, data |-> NoData, kind |-> "",
              rid |-> None, doc |-> NoDoc, wrapped |-> FALSE, names |-> None]
\* no search called yet
NoSearch == [op |-> "", conditions |-> <<>>, after |-> <<>>, kind |-> "",
             error |-> "", sql |-> [select |-> "", table |-> "", where |-> <<>>],
             params |-> <<>>, result |-> {}]
TableName == "documents"
Initializers == 1..NThreads
Names(seq) == {seq[n] : n \in 1..Len(seq)}
\* the schema of a new database, and the one after the table's creation
NoSchema == [tables |-> <<>>, indexes |-> <<>>]
TableSchema == [tables |-> <<TableName>>, indexes |-> <<>>]
InitSchema(sch) ==
    /\ schema = sch
    /\ ipc = [i \in Initializers |-> "idle"]
    /\ itodo = [i \in Initializers |-> <<>>]
    /\ iout = [i \in Initializers |-> ""]
    /\ asked = {}
    /\ ncalls = 0
InitDocsIdle ==
    /\ api = ""
    /\ call = NoDocCall
    /\ lastins = 0
    /\ nfail = 0
    /\ scall = NoSearch
    /\ InitSchema(TableSchema)

(***************************************************************************)
(* The connection (aiosqlite over sqlite3, default isolation level): a     *)
(* data-modifying statement opens a transaction if none is open; commit    *)
(* makes the connection's view the committed table.                        *)
(***************************************************************************)
\* the commit is not made
Committed_Dropped(committed, wk) == committed

\* connection.commit(): the transaction's table becomes the committed one
Committed(committed, wk) == wk

ConnWrite(tbl) == view' = tbl /\ inTxn' = TRUE
ConnCommit == disk' = Committed(disk, view) /\ inTxn' = FALSE /\ UNCHANGED view
\* what a failed statement or commit leaves: the transaction as it was, or,
\* for the errors on which the engine rolls back by itself, nothing of it
ConnRolledBack == view' = disk /\ inTxn' = FALSE /\ UNCHANGED disk
ConnAfterError ==
    \/ UNCHANGED <<disk, view, inTxn>>
    \/ ConnRolledBack

\* AsyncSQLiteController.execute and .commit pass the call to _connection
ControllerExecuteWrite(tbl) == ConnWrite(tbl)
ControllerCommit == ConnCommit

(***************************************************************************)
(* HookLoopModel.bulk_save                                                 *)
(***************************************************************************)
\* params: one (id, json, json) tuple per model, in input order
BuildParams(ms) == [i \in DOMAIN ms |-> [id |-> ms[i].id, data |-> ms[i].data]]

\* new_models: the models with no id, in input order
RECURSIVE NewModelsFrom(_, _)
NewModelsFrom(ms, i) ==
    IF i > Len(ms) THEN <<>>
    ELSE (IF ms[i].id = None THEN <<i>> ELSE <<>>) \o NewModelsFrom(ms, i + 1)
NewModels(ms) == NewModelsFrom(ms, 1)

\* the ids taken in the order the query returns them (descending)
AssignOrder_NotReversed(ids) == ids

\* reversed(new_ids)
AssignOrder(ids) == Reverse(ids)

\* for model, new_id in zip(new_models, reversed(new_ids)): model.id = new_id
ZipAssign(ms, nm, ids) ==
    [i \in DOMAIN ms |->
        IF \E j \in 1..Min(Len(nm), Len(ids)) : nm[j] = i
        THEN [ms[i] EXCEPT !.id = ids[CHOOSE j \in 1..Min(Len(nm), Len(ids)) : nm[j] = i]]
        ELSE ms[i]]

\* [model.id for model in models]
ModelIdsOf(ms) == [i \in DOMAIN ms |-> ms[i].id]

TasksIdle == \A k \in Tasks : tpc[k] = "idle"

\* the call, up to its first await; alone == no other task is mid-operation
BulkSave(batch, alone) ==
    /\ bpc = "idle"
    /\ alone => TasksIdle
    /\ models' = batch
    /\ params' = BuildParams(batch)
    /\ new_models' = NewModels(batch)
    /\ bpc' = "begin"
    /\ UNCHANGED <<disk, view, inTxn, result, bret, tpc, tdoc, tcursor, tret,
                   nops, generated, window,
                   syncVars, writerVars, docVars>>

\* async with conn.execute("BEGIN TRANSACTION")
BulkBegin ==
    /\ bpc = "begin"
    /\ ~inTxn
    /\ inTxn' = TRUE
    /\ bpc' = "executemany"
    /\ UNCHANGED <<disk, view, models, params, new_models, result, bret, tpc,
                   tdoc, tcursor, tret, nops, generated, window,
                   syncVars, writerVars, docVars>>

\* BEGIN inside an open transaction, or any engine error: the call raises
BulkBeginFails ==
    /\ bpc = "begin"
    /\ bpc' = "raised"
    /\ UNCHANGED <<disk, view, inTxn, models, params, new_models, result, bret,
                   tpc, tdoc, tcursor, tret, nops, generated, window,
                   syncVars, writerVars, docVars>>

\* await conn.executemany(query, params)
BulkExecuteMany ==
    /\ bpc = "executemany"
    /\ ExecuteMany(view, params).ok
    /\ ConnWrite(ExecuteMany(view, params).tbl)
    /\ generated' = ExecuteMany(view, params).rowids
    /\ bpc' = IF new_models # <<>> THEN "select" ELSE "aexit"
    /\ UNCHANGED <<disk, models, params, new_models, result, bret, tpc, tdoc,
                   tcursor, tret, nops, window,
                   syncVars, writerVars, docVars>>

\* a parameter tuple fails: the exception leaves the async with block (which
\* closes the cursor) and bulk_save; nothing rolls the transaction back
BulkExecuteManyFails ==
    /\ bpc = "executemany"
    /\ ~ExecuteMany(view, params).ok
    /\ \/ ConnWrite(ExecuteMany(view, params).tbl) /\ UNCHANGED disk
       \/ ExecuteMany(view, params).engine /\ ConnRolledBack
    /\ generated' = ExecuteMany(view, params).rowids
    /\ bpc' = "raised"
    /\ UNCHANGED <<models, params, new_models, result, bret, tpc, tdoc,
                   tcursor, tret, nops, window,
                   syncVars, writerVars, docVars>>

\* result = await conn.execute("SELECT id ... ORDER BY id DESC LIMIT ?")
BulkSelect ==
    /\ bpc = "select"
    /\ result' = SelectTopIds(view, Len(new_models))
    /\ bpc' = "fetchall"
    /\ UNCHANGED <<disk, view, inTxn, models, params, new_models, bret, tpc,
                   tdoc, tcursor, tret, nops, generated, window,
                   syncVars, writerVars, docVars>>

BulkSelectFails ==
    /\ bpc = "select"
    /\ ConnAfterError
    /\ bpc' = "raised"
    /\ UNCHANGED <<models, params, new_models, result, bret,
                   tpc, tdoc, tcursor, tret, nops, generated, window,
                   syncVars, writerVars, docVars>>

\* new_ids = [row[0] for row in await result.fetchall()] and the zip loop
BulkFetchAll ==
    /\ bpc = "fetchall"
    /\ models' = ZipAssign(models, new_models, AssignOrder(result))
    /\ result' = <<>>
    /\ bpc' = "aexit"
    /\ UNCHANGED <<disk, view, inTxn, params, new_models, bret, tpc,
                   tdoc, tcursor, tret, nops, generated, window,
                   syncVars, writerVars, docVars>>

\* leaving the async with block: the BEGIN statement's cursor is closed
BulkAexit ==
    /\ bpc = "aexit"
    /\ bpc' = "commit"
    /\ UNCHANGED <<disk, view, inTxn, models, params, new_models, result, bret,
                   tpc, tdoc, tcursor, tret, nops, generated, window,
                   syncVars, writerVars, docVars>>

\* await conn.commit(); return [model.id for model in models]
BulkCommit ==
    /\ bpc = "commit"
    /\ ConnCommit
    /\ bret' = ModelIdsOf(models)
    /\ bpc' = "returned"
    /\ UNCHANGED <<models, params, new_models, result, tpc, tdoc, tcursor,
                   tret, nops, generated, window,
                   syncVars, writerVars, docVars>>

BulkCommitFails ==
    /\ bpc = "commit"
    /\ ConnAfterError
    /\ bpc' = "raised"
    /\ UNCHANGED <<models, params, new_models, result, bret, tpc, tdoc,
                   tcursor, tret, nops, generated, window,
                   syncVars, writerVars, docVars>>

BulkStep ==
    \/ BulkBegin \/ BulkBeginFails
    \/ BulkExecuteMany \/ BulkExecuteManyFails
    \/ BulkSelect \/ BulkSelectFails
    \/ BulkFetchAll \/ BulkAexit
    \/ BulkCommit \/ BulkCommitFails

(***************************************************************************)
(* HookLoopTable.upsert and HookLoopTable.delete_document, run by the      *)
(* other tasks on the same connection.  conc == the tasks may run while    *)
(* bulk_save is between two of its awaits.                                 *)
(***************************************************************************)
TaskMayRun(conc) ==
    IF conc THEN bpc # "returned" ELSE bpc \in {"idle", "raised"}

\* a statement that names its row, run while bulk_save is in flight
Noted(byId) == window \/ (BulkInFlight /\ byId)

\* the statement upsert issues for a document with this id
UpsertStatement(tbl, id_value, data) ==
    IF id_value = None THEN InsertAuto(tbl, data) ELSE UpsertAt(tbl, id_value, data)

\* cursor.lastrowid after the statement
LastRowid(tbl, id_value) == IF id_value = None THEN NextRowid(tbl) ELSE id_value

\* return cursor.lastrowid if id_value is None else id_value
UpsertReturn(id_value, lastrowid) == IF id_value = None THEN lastrowid ELSE id_value

\* cursor = await self.controller.execute(query, params)
TaskUpsertExecute(k, id_value, conc) ==
    /\ TaskMayRun(conc)
    /\ tpc[k] = "idle"
    /\ id_value = None => ~TableFull(view)
    /\ ControllerExecuteWrite(UpsertStatement(view, id_value, TaskData(k)))
    /\ tdoc' = [tdoc EXCEPT ![k] = id_value]
    /\ tcursor' = [tcursor EXCEPT ![k] = LastRowid(view, id_value)]
    /\ tret' = [tret EXCEPT ![k] = None]
    /\ tpc' = [tpc EXCEPT ![k] = "upsert_commit"]
    /\ nops' = nops + 1
    /\ window' = Noted(id_value # None)
    /\ UNCHANGED <<disk, models, bpc, params, new_models, result, bret,
                   generated,
                   syncVars>>

\* await self.controller.commit(); return ...
TaskUpsertCommit(k, conc) ==
    /\ TaskMayRun(conc)
    /\ tpc[k] = "upsert_commit"
    /\ ControllerCommit
    /\ tret' = [tret EXCEPT ![k] = UpsertReturn(tdoc[k], tcursor[k])]
    /\ tpc' = [tpc EXCEPT ![k] = "idle"]
    /\ tdoc' = [tdoc EXCEPT ![k] = None]
    /\ tcursor' = [tcursor EXCEPT ![k] = None]
    /\ UNCHANGED <<models, bpc, params, new_models, result, bret,
                   nops, generated, window,
                   syncVars>>

\* await self.controller.execute("DELETE ...", (id,))
TaskDeleteExecute(k, id, conc) ==
    /\ TaskMayRun(conc)
    /\ tpc[k] = "idle"
    /\ ControllerExecuteWrite(DeleteAt(view, id))
    /\ tdoc' = [tdoc EXCEPT ![k] = id]
    /\ tpc' = [tpc EXCEPT ![k] = "delete_commit"]
    /\ nops' = nops + 1
    /\ window' = Noted(TRUE)
    /\ UNCHANGED <<disk, models, bpc, params, new_models, result, bret,
                   tcursor, tret, generated,
                   syncVars>>

\* await self.controller.commit()
TaskDeleteCommit(k, conc) ==
    /\ TaskMayRun(conc)
    /\ tpc[k] = "delete_commit"
    /\ ControllerCommit
    /\ tpc' = [tpc EXCEPT ![k] = "idle"]
    /\ tdoc' = [tdoc EXCEPT ![k] = None]
    /\ UNCHANGED <<models, bpc, params, new_models, result, bret, tcursor,
                   tret, nops, generated, window,
                   syncVars>>

\* the caller's other task: at most MaxOps operations in a behaviour
TaskStep(conc) ==
    \E k \in Peers :
        \/ \E id_value \in Ids \cup {None} :
              /\ nops < MaxOps
              /\ TaskUpsertExecute(k, id_value, conc)
              /\ UNCHANGED <<writerVars, docVars>>
        \/ TaskUpsertCommit(k, conc) /\ UNCHANGED <<writerVars, docVars>>
        \/ \E id \in Ids :
              /\ nops < MaxOps
              /\ TaskDeleteExecute(k, id, conc)
              /\ UNCHANGED <<writerVars, docVars>>
        \/ TaskDeleteCommit(k, conc) /\ UNCHANGED <<writerVars, docVars>>

(***************************************************************************)
(* bulk_save with a single writer: the other tasks run before the call and *)
(* after it has raised, never between two of its awaits.                   *)
(***************************************************************************)
NextSingle ==
    \/ \E batch \in Batches : BulkSave(batch, TRUE)
    \/ BulkStep
    \/ TaskStep(FALSE)

InitBulk == InitAsync /\ InitSyncIdle /\ InitWritersIdle /\ InitDocsIdle

SpecSingle == InitBulk /\ [][NextSingle]_vars

(***************************************************************************)
(* bulk_save with concurrent writers: every interleaving of its awaits     *)
(* with the other tasks' awaits.                                           *)
(***************************************************************************)
NextConcurrent ==
    \/ \E batch \in Batches : BulkSave(batch, FALSE)
    \/ BulkStep
    \/ TaskStep(TRUE)

SpecConcurrent == InitBulk /\ [][NextConcurrent]_vars

(***************************************************************************)
(* DuctTapeDB: the connection lifecycle.                                   *)
(*                                                                         *)
(* connect(), close() and the conn property read and write only the        *)
(* calling thread's slot of _local, so each call is one step.  What the    *)
(* engine does during a call is the step's input eng:                      *)
(*   "open_error"    sqlite3.connect raises sqlite3.Error                  *)
(*   "pragma_error"  the foreign_keys or busy_timeout pragma raises it     *)
(*   "wal_error"     the journal_mode pragma raises it                     *)
(*   a journal mode  the mode the journal_mode pragma reports              *)
(*   "ok"            no journal_mode pragma is issued, nothing raises      *)
(***************************************************************************)
Mem == ":memory:"
SharedMem == "file::memory:?cache=shared"
File == "documents.db"
Paths == {Mem, SharedMem, File}

\* PRAGMA journal_mode = WAL reports the mode now in force: an in-memory
\* database stays in "memory"; a file switches to "wal" or keeps its mode
JournalModes(path) == IF path = File THEN {"wal", "delete"} ELSE {"memory"}

EngineOutcomes(hd) ==
    {"open_error", "pragma_error"} \cup
    (IF hd.wal THEN {"wal_error"} \cup JournalModes(hd.path) ELSE {"ok"})
\* the engine when nothing goes wrong
EngineFine(hd) == IF hd.wal THEN "wal" ELSE "ok"

WalMsg == "Failed to enable WAL mode. Current mode: "
ConnectMsg == "Failed to connect to the database: "

\* a call of thread t returned connection c (NoConn: returned no connection)
\* or raised; made is the connection the call created, if any
Returned(t, c, made) ==
    [thread |-> t, kind |-> "returned", conn |-> c, msg |-> "", detail |-> "",
     created |-> made]
Raised(t, msg, detail, made) ==
    [thread |-> t, kind |-> "RuntimeError", conn |-> NoConn, msg |-> msg,
     detail |-> detail, created |-> made]

\* what sqlite3 raises inside connect's try block
EngineErrors == {"open_error", "pragma_error", "wal_error"}

\* the engine's error leaves connect as it is
ExceptSqliteError_Raw(t, eng, made) ==
    [thread |-> t, kind |-> "sqlite3.Error", conn |-> NoConn, msg |-> "",
     detail |-> eng, created |-> made]

\* except sqlite3.Error as e: raise RuntimeError(f"Failed to connect ...: {e}")
ExceptSqliteError(t, eng, made) == Raised(t, ConnectMsg, eng, made)

\* every thread's slot is the one every thread shares (a plain attribute)
Slot_Shared(t) == 1

\* _local = local(): the attributes of _local are per thread
Slot(t) == t

\* the guard of connect is never true
HasConnection_Never(loc, t) == FALSE

\* hasattr(self._local, "connection") and self._local.connection is not None
HasConnection(loc, t) == loc[Slot(t)] # NoConn

\* the mode is not compared
WalConfirmed_Unchecked(mode) == TRUE

\* not (mode != "wal")
WalConfirmed(mode) == mode = "wal"

\* sqlite3.connect(self.path, uri=True, check_same_thread=False) and the
\* pragmas run on it
NewConnection(hd, t, eng) ==
    [thread |-> t, path |-> hd.path, open |-> TRUE,
     walAsked |-> hd.wal /\ eng # "pragma_error",
     mode |-> IF hd.wal /\ eng \in JournalModes(hd.path) THEN eng ELSE ""]

\* connect(): the slots, the connections and the outcome after the call
DoConnect(loc, cs, hd, t, eng) ==
    IF HasConnection(loc, t)
    THEN [local |-> loc, conns |-> cs, out |-> Returned(t, loc[Slot(t)], NoConn)]
    ELSE IF eng = "open_error"
    THEN [local |-> loc, conns |-> cs, out |-> ExceptSqliteError(t, eng, NoConn)]
    ELSE LET c == Len(cs) + 1
             loc2 == [loc EXCEPT ![Slot(t)] = c]
             cs2 == Append(cs, NewConnection(hd, t, eng))
         IN  IF eng \in {"pragma_error", "wal_error"}
             THEN [local |-> loc2, conns |-> cs2,
                   out |-> ExceptSqliteError(t, eng, c)]
             ELSE IF hd.wal /\ ~WalConfirmed(eng)
             THEN [local |-> loc2, conns |-> cs2, out |-> Raised(t, WalMsg, eng, c)]
             ELSE [local |-> loc2, conns |-> cs2, out |-> Returned(t, c, c)]

\* connection.close(): the object is closed and nothing of it is kept
Closed == [thread |-> 0, path |-> "", open |-> FALSE, walAsked |-> FALSE, mode |-> ""]

\* the connection is closed and stays bound
DoClose_KeepsBound(loc, cs, t) ==
    IF HasConnection(loc, t)
    THEN [local |-> loc, conns |-> [cs EXCEPT ![loc[Slot(t)]] = Closed]]
    ELSE [local |-> loc, conns |-> cs]

\* close()
DoClose(loc, cs, t) ==
    IF HasConnection(loc, t)
    THEN [local |-> [loc EXCEPT ![Slot(t)] = NoConn],
          conns |-> [cs EXCEPT ![loc[Slot(t)]] = Closed]]
    ELSE [local |-> loc, conns |-> cs]

\* what the engine may do during a call of thread t: it is asked nothing
\* when the thread has a connection
EngineInputs(hd, t) ==
    IF HasConnection(local, t) THEN {EngineFine(hd)} ELSE EngineOutcomes(hd)

\* a call may create a connection only while the model has room for one
Room(t) == HasConnection(local, t) \/ Len(conns) < MaxConns

\* __init__(path, table, wal, auto_init): with auto_init it connects,
\* creates the table and closes; an exception leaves no object
Construct(t, h, path, wal, auto_init, eng) ==
    LET hd == [made |-> TRUE, path |-> path, wal |-> wal]
        r == DoConnect(local, conns, hd, t, eng)
        d == DoClose(r.local, r.conns, t)
    IN  /\ ~handle[h].made
        /\ IF ~auto_init
           THEN /\ eng = "ok"
                /\ handle' = [handle EXCEPT ![h] = hd]
                /\ out' = Returned(t, NoConn, NoConn)
                /\ UNCHANGED <<local, conns>>
           ELSE /\ Room(t)
                /\ eng \in EngineInputs(hd, t)
                /\ IF r.out.kind = "returned"
                   THEN /\ handle' = [handle EXCEPT ![h] = hd]
                        /\ local' = d.local
                        /\ conns' = d.conns
                        /\ out' = Returned(t, NoConn, r.out.created)
                   ELSE /\ local' = r.local
                        /\ conns' = r.conns
                        /\ out' = r.out
                        /\ UNCHANGED handle
        /\ UNCHANGED <<wlock, work, asyncVars, writerVars, docVars>>

\* DuctTapeDB(path=..., wal=..., auto_init=...)
Constructor(t, h) ==
    \E path \in Paths, wal \in BOOLEAN, auto_init \in BOOLEAN, eng \in
            {"open_error", "pragma_error", "wal_error", "wal", "delete", "memory", "ok"} :
        Construct(t, h, path, wal, auto_init, eng)

\* DuctTapeDB.create(table, path): cls(path=path, table=table)
Create(t, h) ==
    \E path \in Paths, eng \in
            {"open_error", "pragma_error", "wal_error", "wal", "delete", "memory"} :
        Construct(t, h, path, TRUE, TRUE, eng)

\* DuctTapeDB.create_memory(table, shared_cache)
CreateMemory(t, h) ==
    \E shared_cache \in BOOLEAN :
        Construct(t, h, IF shared_cache THEN SharedMem ELSE Mem, FALSE, FALSE, "ok")

\* connect()
Connect(t, h) ==
    \E eng \in EngineInputs(handle[h], t) :
        LET r == DoConnect(local, conns, handle[h], t, eng)
        IN  /\ handle[h].made
            /\ Room(t)
            /\ local' = r.local
            /\ conns' = r.conns
            /\ out' = r.out
            /\ UNCHANGED <<handle, wlock, work, asyncVars, writerVars, docVars>>

\* close()
Close(t, h) ==
    LET d == DoClose(local, conns, t)
    IN  /\ handle[h].made
        /\ local' = d.local
        /\ conns' = d.conns
        /\ out' = Returned(t, NoConn, NoConn)
        /\ UNCHANGED <<handle, wlock, work, asyncVars, writerVars, docVars>>

\* __enter__: self.connect(); return self
Enter(t, h) == Connect(t, h)

\* __exit__: self.close()
Exit(t, h) == Close(t, h)

\* find(id): a document operation; it reaches the connection through the
\* conn property, which calls connect()
Find(t, h) ==
    \E eng \in EngineInputs(handle[h], t) :
        LET r == DoConnect(local, conns, handle[h], t, eng)
        IN  /\ handle[h].made
            /\ Room(t)
            /\ local' = r.local
            /\ conns' = r.conns
            /\ out' = r.out
            /\ UNCHANGED <<handle, wlock, work, asyncVars, writerVars, docVars>>

NextSync ==
    \E t \in Threads, h \in Handles :
        \/ Constructor(t, h)
        \/ Create(t, h)
        \/ CreateMemory(t, h)
        \/ Connect(t, h)
        \/ Enter(t, h)
        \/ Close(t, h)
        \/ Exit(t, h)
        \/ Find(t, h)

InitSync == InitAsync /\ InitSyncIdle /\ InitWritersIdle /\ InitDocsIdle

SpecSync == InitSync /\ [][NextSync]_vars

(***************************************************************************)
(* Concurrent writers of distinct ids: NThreads threads that each call     *)
(* connect, upsert_document and close on one shared DuctTapeDB (a file     *)
(* database in WAL mode), or NTasks asyncio tasks that each await          *)
(* HookLoopTable.upsert on the one shared connection.                      *)
(*                                                                         *)
(* The engine gives the write lock to one connection at a time; a          *)
(* connection that finds it taken waits (busy_timeout), which the model    *)
(* has as the statement not yet being enabled.                             *)
(***************************************************************************)
Writers(v) == IF v = "threads" THEN Threads ELSE Tasks
OldData == <<"old">>
ThreadData(t) == <<"thread", t>>

\* json.dumps(document): the stored payload is the whole document
SyncStored(id_value, data) == <<"doc", id_value, data>>

\* return id_value or cursor.lastrowid
SyncUpsertReturn(id_value, lastrowid) ==
    IF id_value = None \/ id_value = 0 THEN lastrowid ELSE id_value

\* the table connection c reads and writes
TableOf(c) == IF wlock = c /\ c # NoConn THEN work ELSE disk

\* the table before the writers start: empty, or with one older row
InitWriters ==
    /\ InitDocsIdle
    /\ disk \in {EmptyTable} \cup {UpsertAt(EmptyTable, i, OldData) : i \in Ids}
    /\ view = disk
    /\ InitAsyncIdle
    /\ variant \in {"threads", "tasks"}
    /\ wid \in {f \in [Writers(variant) -> Ids] :
                   \A a, b \in Writers(variant) : a # b => f[a] # f[b]}
    /\ wpc = [w \in Writers(variant) |-> "start"]
    /\ wret = [w \in Writers(variant) |-> None]
    /\ handle = [h \in Handles |->
                    IF h = 1 THEN [made |-> TRUE, path |-> File, wal |-> TRUE]
                    ELSE NoHandle]
    /\ local = [t \in Threads |-> NoConn]
    /\ conns = <<>>
    /\ out = NoCall
    /\ wlock = NoConn
    /\ work = EmptyTable

\* db_obj.connect() at the start of the thread
WriterConnect(t) ==
    LET r == DoConnect(local, conns, handle[1], t, EngineFine(handle[1]))
    IN  /\ variant = "threads"
        /\ wpc[t] = "start"
        /\ local' = r.local
        /\ conns' = r.conns
        /\ out' = r.out
        /\ wpc' = [wpc EXCEPT ![t] = "connected"]
        /\ UNCHANGED <<handle, wlock, work, wid, wret, variant, asyncVars, docVars>>

\* upsert_document: cursor = self.conn.execute(query, ...)
WriterExecute(t) ==
    LET r == DoConnect(local, conns, handle[1], t, EngineFine(handle[1]))
        c == r.out.conn
    IN  /\ variant = "threads"
        /\ wpc[t] = "connected"
        /\ wlock \in {NoConn, c}
        /\ local' = r.local
        /\ conns' = r.conns
        /\ out' = r.out
        /\ wlock' = c
        /\ work' = UpsertAt(TableOf(c), wid[t], SyncStored(wid[t], ThreadData(t)))
        /\ wpc' = [wpc EXCEPT ![t] = "executed"]
        /\ UNCHANGED <<handle, wid, wret, variant, asyncVars, docVars>>

\* upsert_document: self.conn.commit(); return id_value or cursor.lastrowid
WriterCommit(t) ==
    LET r == DoConnect(local, conns, handle[1], t, EngineFine(handle[1]))
        c == r.out.conn
    IN  /\ variant = "threads"
        /\ wpc[t] = "executed"
        /\ local' = r.local
        /\ conns' = r.conns
        /\ out' = r.out
        /\ IF wlock = c
           THEN /\ disk' = Committed(disk, work)
                /\ wlock' = NoConn
           ELSE UNCHANGED <<disk, wlock>>
        /\ wret' = [wret EXCEPT ![t] = SyncUpsertReturn(wid[t], wid[t])]
        /\ wpc' = [wpc EXCEPT ![t] = "committed"]
        /\ UNCHANGED <<handle, work, wid, variant, view, inTxn, models, bpc,
                       params, new_models, result, bret, tpc, tdoc, tcursor,
                       tret, nops, generated, window, docVars>>

\* db_obj.close() at the end of the thread; a connection closed with a
\* transaction open loses it
WriterClose(t) ==
    LET d == DoClose(local, conns, t)
    IN  /\ variant = "threads"
        /\ wpc[t] = "committed"
        /\ local' = d.local
        /\ conns' = d.conns
        /\ wlock' = IF wlock # NoConn /\ wlock = local[Slot(t)] THEN NoConn ELSE wlock
        /\ out' = Returned(t, NoConn, NoConn)
        /\ wpc' = [wpc EXCEPT ![t] = "done"]
        /\ UNCHANGED <<handle, work, wid, wret, variant, asyncVars, docVars>>

\* await table.upsert({"id": task_id, "data": ...}), up to its first await
WriterTaskExecute(k) ==
    /\ variant = "tasks"
    /\ wpc[k] = "start"
    /\ TaskUpsertExecute(k, wid[k], TRUE)
    /\ wpc' = [wpc EXCEPT ![k] = "executed"]
    /\ UNCHANGED <<wid, wret, variant, docVars>>

\* ... and from the commit to the return
WriterTaskCommit(k) ==
    /\ variant = "tasks"
    /\ wpc[k] = "executed"
    /\ TaskUpsertCommit(k, TRUE)
    /\ wret' = [wret EXCEPT ![k] = UpsertReturn(tdoc[k], tcursor[k])]
    /\ wpc' = [wpc EXCEPT ![k] = "done"]
    /\ UNCHANGED <<wid, variant, docVars>>

NextWriters ==
    \/ \E t \in Threads :
          \/ WriterConnect(t)
          \/ WriterExecute(t)
          \/ WriterCommit(t)
          \/ WriterClose(t)
    \/ \E k \in Tasks :
          \/ WriterTaskExecute(k)
          \/ WriterTaskCommit(k)

SpecWriters == InitWriters /\ [][NextWriters]_vars

(***************************************************************************)
(* The document operations, called one after another by one caller on one  *)
(* connection: DuctTapeDB.upsert_document, find and delete_document, or     *)
(* HookLoopTable.upsert, find and delete_document.  Each call is one step.  *)
(* What the engine does during the call is the step's input fail:          *)
(*   "none"     nothing raises                                             *)
(*   "execute"  the statement raises an engine error and changes nothing   *)
(*   "commit"   the statement runs and the commit raises an engine error   *)
(***************************************************************************)
\* the largest id the caller uses (the ids start at 0)
MaxDocId == 1
\* the number of calls of one behaviour in which the engine raises
MaxFails == 1
DocIds == 0..MaxDocId
\* the data of the documents: JSON objects
DocData == {[name |-> "slime"], [name |-> "hero"]}
EmptyDocTable == [rows |-> [i \in DocIds |-> NoRow], seq |-> 0]

\* the stored payload is the empty object whatever the data
AsyncStored_Empty(data) == <<"data", NoData>>

\* json.dumps(document.get("data", {})): the stored payload is the data
AsyncStored(data) == <<"data", data>>

\* the payload upsert stores for a document
DocStored(a, id_value, data) ==
    IF a = "sync" THEN SyncStored(id_value, data) ELSE AsyncStored(data)

\* json.loads(row[1]): the value that was serialised
Loads(text) ==
    IF text[1] = "doc" THEN [id |-> text[2], data |-> text[3]] ELSE text[2]

\* SELECT id, data FROM t WHERE id = ?; fetchone(); {"id": .., "data": ..} or None
FindRow(tbl, id) ==
    IF tbl.rows[id] = NoRow THEN NoDoc
    ELSE [id |-> id, data |-> Loads(tbl.rows[id])]

\* the connection's last insert rowid after the upsert statement: an insert
\* sets it, an update on conflict leaves it
LastInsertRowid(tbl, id_value, last) ==
    IF id_value = None THEN NextRowid(tbl)
    ELSE IF tbl.rows[id_value] = NoRow THEN id_value ELSE last

\* the row the upsert statement writes
WrittenRowid(tbl, id_value) == IF id_value = None THEN NextRowid(tbl) ELSE id_value

\* what the call returns
DocUpsertReturn(a, id_value, lastrowid) ==
    IF a = "sync" THEN SyncUpsertReturn(id_value, lastrowid)
    ELSE UpsertReturn(id_value, lastrowid)

DocReturned(op, id, data, rid, doc) ==
    [op |-> op, id |-> id, data |-> data, kind |-> "returned", rid |-> rid,
     doc |-> doc, wrapped |-> FALSE, names |-> None]
\* the engine's error reaches the caller as it is
DocRaisedRaw(op, id, data) ==
    [op |-> op, id |-> id, data |-> data, kind |-> "raised", rid |-> None,
     doc |-> NoDoc, wrapped |-> FALSE, names |-> None]
\* raise RuntimeError(f"Error during upsert of document {id_value}") from e
DocRaisedWrapped(op, id, data) ==
    [op |-> op, id |-> id, data |-> data, kind |-> "raised", rid |-> None,
     doc |-> NoDoc, wrapped |-> TRUE, names |-> id]

callerFrameNoSchema == <<models, bpc, params, new_models, result, bret, tpc, tdoc,
                         tcursor, tret, nops, generated, window, syncVars, writerVars>>
callerFrame == <<callerFrameNoSchema, schemaVars>>
docFrame == <<callerFrame, scall>>

\* upsert_document(document) / upsert(document)
DocUpsert(id_value, data, fail) ==
    LET stmt == UpsertStatement(view, id_value, DocStored(api, id_value, data))
        lastrowid == LastInsertRowid(view, id_value, lastins)
    IN  /\ api \in {"sync", "async"}
        /\ (id_value = None /\ TableFull(view)) => fail = "execute"
        /\ fail # "none" => nfail < MaxFails
        /\ nfail' = IF fail = "none" THEN nfail ELSE nfail + 1
        /\ \/ /\ fail = "none"
              /\ view' = stmt
              /\ disk' = Committed(disk, stmt)
              /\ inTxn' = FALSE
              /\ lastins' = lastrowid
              /\ call' = DocReturned("upsert", id_value, data,
                                     DocUpsertReturn(api, id_value, lastrowid), NoDoc)
           \/ /\ fail = "execute"
              /\ IF api = "sync"
                 THEN /\ ConnRolledBack
                      /\ call' = DocRaisedWrapped("upsert", id_value, data)
                 ELSE /\ ConnAfterError
                      /\ call' = DocRaisedRaw("upsert", id_value, data)
              /\ UNCHANGED lastins
           \/ /\ fail = "commit"
              /\ IF api = "sync"
                 THEN /\ ConnRolledBack
                      /\ call' = DocRaisedWrapped("upsert", id_value, data)
                 ELSE /\ \/ ConnWrite(stmt) /\ UNCHANGED disk
                         \/ ConnRolledBack
                      /\ call' = DocRaisedRaw("upsert", id_value, data)
              /\ lastins' = lastrowid
        /\ UNCHANGED <<api, docFrame>>

\* find(id)
DocFind(id, fail) ==
    /\ api \in {"sync", "async"}
    /\ fail # "none" => nfail < MaxFails
    /\ nfail' = IF fail = "none" THEN nfail ELSE nfail + 1
    /\ \/ /\ fail = "none"
          /\ call' = DocReturned("find", id, NoData, None, FindRow(view, id))
          /\ UNCHANGED <<disk, view, inTxn>>
       \/ /\ fail = "execute"
          /\ ConnAfterError
          /\ call' = DocRaisedRaw("find", id, NoData)
    /\ UNCHANGED <<api, lastins, docFrame>>

\* delete_document(id)
DocDelete(id, fail) ==
    /\ api \in {"sync", "async"}
    /\ fail # "none" => nfail < MaxFails
    /\ nfail' = IF fail = "none" THEN nfail ELSE nfail + 1
    /\ \/ /\ fail = "none"
          /\ view' = DeleteAt(view, id)
          /\ disk' = Committed(disk, DeleteAt(view, id))
          /\ inTxn' = FALSE
          /\ call' = DocReturned("delete", id, NoData, None, NoDoc)
       \/ /\ fail = "execute"
          /\ ConnAfterError
          /\ call' = DocRaisedRaw("delete", id, NoData)
       \/ /\ fail = "commit"
          /\ \/ ConnWrite(DeleteAt(view, id)) /\ UNCHANGED disk
             \/ ConnRolledBack
          /\ call' = DocRaisedRaw("delete", id, NoData)
    /\ UNCHANGED <<api, lastins, docFrame>>

NextDocs ==
    \/ \E id_value \in DocIds \cup {None}, data \in DocData,
          fail \in {"none", "execute", "commit"} : DocUpsert(id_value, data, fail)
    \/ \E id \in DocIds, fail \in {"none", "execute"} : DocFind(id, fail)
    \/ \E id \in DocIds, fail \in {"none", "execute", "commit"} : DocDelete(id, fail)

\* a new database after _initialize_table / initialize, used through one API
InitDocs ==
    /\ disk = EmptyDocTable
    /\ view = EmptyDocTable
    /\ InitAsyncIdle
    /\ InitSyncIdle
    /\ InitWritersIdle
    /\ api \in {"sync", "async"}
    /\ call = NoDocCall
    /\ lastins = 0
    /\ nfail = 0
    /\ scall = NoSearch
    /\ InitSchema(TableSchema)

SpecDocs == InitDocs /\ [][NextDocs]_vars

(***************************************************************************)
(* HookLoopTable.search_basic, search and search_advanced over a table of  *)
(* documents; one search call per behaviour.                               *)
(***************************************************************************)
MaxConds == 2
\* the values the engine compares: integers, texts and NULL
IntVal(n) == <<"int", n>>
TextVal(str) == <<"text", str>>
SqlNull == <<"null">>
\* a text that is SQL
Injection == "'; DROP TABLE documents; --"
\* the texts in the order of their bytes (the BINARY collation)
TextOrder == <<Injection, "level", "name">>
TextRank(str) == CHOOSE i \in 1..Len(TextOrder) : TextOrder[i] = str
\* the order of two values that are not NULL: a number is before a text
Before(x, y) ==
    IF x[1] = "int" /\ y[1] = "int" THEN x[2] < y[2]
    ELSE IF x[1] = "text" /\ y[1] = "text" THEN TextRank(x[2]) < TextRank(y[2])
    ELSE x[1] = "int"
\* x operator y for two values that are not NULL; LIKE with a pattern that
\* has no wildcard
Holds(x, operator, y) ==
    CASE operator = "="  -> x = y
      [] operator = "!=" -> x # y
      [] operator = "<"  -> Before(x, y)
      [] operator = ">"  -> Before(y, x)
      [] operator = "<=" -> ~Before(y, x)
      [] operator = ">=" -> ~Before(x, y)
      [] operator = "LIKE" -> x = y

\* the values of the documents' fields, and the values searched for
Levels == {10, 20, 30}
CondValues == {IntVal(20)}
SearchKeys == {"level", "hp"}
KeyOrder == <<"level", "hp", "name">>
allowed_operators == {"=", "!=", "<", ">", "<=", ">="}
Operators == allowed_operators \cup {"LIKE"}
SearchData == {[level |-> IntVal(l)] : l \in Levels} \cup {[hp |-> IntVal(20)]}
\* the tables of documents upserts and deletes leave
TablesOf(stored) ==
    {[rows |-> r, seq |-> MaxDocId] : r \in [DocIds -> {NoRow} \cup stored]}
SearchTables == TablesOf({AsyncStored(d) : d \in SearchData})

\* a condition of search_advanced: a dict with "key", "value" and, or not, "operator"
ConditionsOf(keys, values, operators) ==
    {[key |-> k, value |-> v] : k \in keys, v \in values}
    \cup {[key |-> k, value |-> v, operator |-> o] :
              k \in keys, v \in values, o \in operators}
AdvancedConditions == ConditionsOf(SearchKeys, CondValues, Operators)
ListsOf(conds) == UNION {[1..n -> conds] : n \in 0..MaxConds}
ConditionLists == ListsOf(AdvancedConditions)
\* the conditions of search: a dict from "id" and JSON keys to values
MapsOf(keys, values) ==
    UNION {{f \in [S -> {IntVal(i) : i \in DocIds} \cup values] :
               \A k \in S : IF k = "id" THEN f[k] \in {IntVal(i) : i \in DocIds}
                                        ELSE f[k] \in values} :
           S \in SUBSET ({"id"} \cup keys)}
ConditionMaps == MapsOf(SearchKeys, CondValues)

\* condition.get("operator", "=")
OperatorOf(condition) ==
    IF "operator" \in DOMAIN condition THEN condition.operator ELSE "="

\* the table's name, and the text of a query: what is selected, the table
\* and the clauses of the WHERE; "?" is a placeholder
Placeholder == "?"
Query(selected, where_clauses) ==
    [select |-> selected, table |-> TableName, where |-> where_clauses]
NoQuery == [select |-> "", table |-> "", where |-> <<>>]

\* "id = ?", f"json_extract(data, '$.{key}') {operator} ?" and
\* "json_extract(data, '$.' || ?) {operator} ?"
IdClause == [column |-> "id", path |-> "", operator |-> "="]
JsonClause(key, operator) == [column |-> "data", path |-> key, operator |-> operator]
ParamClause(operator) == JsonClause(Placeholder, operator)
\* " WHERE " + where_raw: the caller's own text
RawClause(where_raw) == [column |-> "raw", path |-> where_raw, operator |-> ""]
\* raw predicates: one that is true of every row, one with a second statement
RawTrue == "1=1"
RawInjection == "1=1; DROP TABLE documents;"

\* json_extract(data, '$.key'): the field's value, NULL when there is none
JsonExtract(text, key) ==
    LET v == Loads(text) IN IF key \in DOMAIN v THEN v[key] ELSE SqlNull

\* '$.' || ?: the path of a text parameter; of a number it is a path of
\* digits, which no document has
PathOf(param) == IF param[1] = "text" THEN param[2] ELSE ""

\* the operand is spliced into the statement: a text that holds SQL of its
\* own makes the condition true
SqlCompare_Spliced(x, operator, y) ==
    IF y = TextVal(Injection) THEN "true"
    ELSE IF x = SqlNull \/ y = SqlNull THEN "null"
    ELSE IF Holds(x, operator, y) THEN "true" ELSE "false"

\* the engine's comparison: NULL when an operand is NULL
SqlCompare(x, operator, y) ==
    IF x = SqlNull \/ y = SqlNull THEN "null"
    ELSE IF Holds(x, operator, y) THEN "true" ELSE "false"

\* the placeholders of a clause, and those before the i-th clause
Placeholders(clause) ==
    IF clause.column = "raw" THEN 0 ELSE IF clause.path = Placeholder THEN 2 ELSE 1
RECURSIVE PlaceholdersBefore(_, _)
PlaceholdersBefore(where_clauses, i) ==
    IF i = 1 THEN 0
    ELSE PlaceholdersBefore(where_clauses, i - 1) + Placeholders(where_clauses[i - 1])

\* the i-th clause with the parameters bound to its placeholders, in order
ClauseValue(id, text, where_clauses, qparams, i) ==
    LET clause == where_clauses[i]
        at == PlaceholdersBefore(where_clauses, i)
    IN  IF clause.column = "raw"
        THEN "true"
        ELSE IF clause.column = "id"
        THEN SqlCompare(IntVal(id), clause.operator, qparams[at + 1])
        ELSE IF clause.path = Placeholder
        THEN SqlCompare(JsonExtract(text, PathOf(qparams[at + 1])), clause.operator,
                        qparams[at + 2])
        ELSE SqlCompare(JsonExtract(text, clause.path), clause.operator,
                        qparams[at + 1])

\* one clause being true is enough (the clauses joined by OR)
WhereHolds_AnyClause(id, text, where_clauses, qparams) ==
    \E i \in 1..Len(where_clauses) :
        ClauseValue(id, text, where_clauses, qparams, i) = "true"

\* WHERE c1 AND c2 AND ...: the row is selected when every clause is true
WhereHolds(id, text, where_clauses, qparams) ==
    \A i \in 1..Len(where_clauses) :
        ClauseValue(id, text, where_clauses, qparams, i) = "true"

\* the rows the WHERE selects
SelectedIds(tbl, where_clauses, qparams) ==
    {j \in RowIds(tbl) : WhereHolds(j, tbl.rows[j], where_clauses, qparams)}

\* SELECT id, data FROM t WHERE ...; fetchall(); the documents of the rows
SelectWhere(tbl, where_clauses, qparams) ==
    {[id |-> i, data |-> Loads(tbl.rows[i])] :
        i \in SelectedIds(tbl, where_clauses, qparams)}

SearchReturned(op, conditions, after, sql, qparams, found) ==
    [op |-> op, conditions |-> conditions, after |-> after, kind |-> "returned",
     error |-> "", sql |-> sql, params |-> qparams, result |-> found]
\* raised before any query was issued
SearchRaised(op, conditions, after, error) ==
    [op |-> op, conditions |-> conditions, after |-> after, kind |-> "raised",
     error |-> error, sql |-> NoQuery, params |-> <<>>, result |-> {}]
\* raised when the query was executed
SearchFailed(op, conditions, after, sql, qparams, error) ==
    [op |-> op, conditions |-> conditions, after |-> after, kind |-> "raised",
     error |-> error, sql |-> sql, params |-> qparams, result |-> {}]

searchFrame == <<api, call, lastins, nfail, disk, view, inTxn, callerFrame>>

\* search_basic(key, value): the query text reads self.table, an attribute
\* the object does not have
SearchBasic(key, value) ==
    /\ scall' = SearchRaised("search_basic", <<key, value>>, <<key, value>>,
                             "AttributeError")
    /\ UNCHANGED searchFrame

\* search(conditions)
Search(conditions) ==
    LET id_condition == IF "id" \in DOMAIN conditions THEN conditions["id"] ELSE SqlNull
        has_id == id_condition # SqlNull
        popped == [k \in DOMAIN conditions \ {"id"} |-> conditions[k]]
        keys == SelectSeq(KeyOrder, LAMBDA k : k \in DOMAIN popped)
        where_clauses ==
            (IF has_id THEN <<IdClause>> ELSE <<>>)
                \o [i \in 1..Len(keys) |-> JsonClause(keys[i], "=")]
        qparams ==
            (IF has_id THEN <<id_condition>> ELSE <<>>)
                \o [i \in 1..Len(keys) |-> popped[keys[i]]]
    IN  /\ \/ /\ DOMAIN conditions = {}
              /\ scall' = SearchRaised("search", conditions, conditions, "ValueError")
           \/ /\ DOMAIN conditions # {}
              /\ scall' = SearchReturned("search", conditions, popped,
                                         Query("id, data", where_clauses), qparams,
                                         SelectWhere(view, where_clauses, qparams))
        /\ UNCHANGED searchFrame

\* search_advanced(conditions)
SearchAdvanced(conditions) ==
    LET where_clauses ==
            [i \in 1..Len(conditions) |->
                JsonClause(conditions[i].key, OperatorOf(conditions[i]))]
        qparams == [i \in 1..Len(conditions) |-> conditions[i].value]
    IN  /\ \/ /\ conditions = <<>>
              /\ scall' = SearchRaised("search_advanced", conditions, conditions,
                                       "ValueError")
           \/ /\ conditions # <<>>
              /\ \E i \in 1..Len(conditions) :
                     OperatorOf(conditions[i]) \notin allowed_operators
              /\ scall' = SearchRaised("search_advanced", conditions, conditions,
                                       "ValueError")
           \/ /\ conditions # <<>>
              /\ \A i \in 1..Len(conditions) :
                     OperatorOf(conditions[i]) \in allowed_operators
              /\ scall' = SearchReturned("search_advanced", conditions, conditions,
                                         Query("id, data", where_clauses), qparams,
                                         SelectWhere(view, where_clauses, qparams))
        /\ UNCHANGED searchFrame

\* the caller has not searched yet
NotSearched == scall.op = ""

NextSearch ==
    \/ NotSearched /\ \E key \in SearchKeys, value \in CondValues : SearchBasic(key, value)
    \/ NotSearched /\ \E conditions \in ConditionMaps : Search(conditions)
    \/ NotSearched /\ \E conditions \in ConditionLists : SearchAdvanced(conditions)

\* a table of documents on the asynchronous API, no search called yet
InitSearch ==
    /\ disk \in SearchTables
    /\ view = disk
    /\ InitAsyncIdle
    /\ InitSyncIdle
    /\ InitWritersIdle
    /\ api = "async"
    /\ call = NoDocCall
    /\ lastins = 0
    /\ nfail = 0
    /\ scall = NoSearch
    /\ InitSchema(TableSchema)

SpecSearch == InitSearch /\ [][NextSearch]_vars

(***************************************************************************)
(* DuctTapeDB.search and DuctTapeDB.aggregate, and the searches of         *)
(* HookLoopTable, with texts among the values; one call per behaviour.     *)
(***************************************************************************)
valid_operations == {"COUNT", "SUM", "AVG", "MIN", "MAX"}
\* operation.upper()
Upper(operation) == IF operation = "sum" THEN "SUM" ELSE operation
NoRaw == ""

\* execute() runs one statement: a text with a second one is refused
OneStatement(sql) ==
    \A i \in 1..Len(sql.where) :
        sql.where[i].column = "raw" => sql.where[i].path # RawInjection

RECURSIVE SumOver(_, _)
SumOver(vals, ids) ==
    IF ids = {} THEN 0
    ELSE LET i == CHOOSE j \in ids : TRUE
             n == IF vals[i][1] = "int" THEN vals[i][2] ELSE 0
         IN  n + SumOver(vals, ids \ {i})

\* the aggregate function over the values of the selected rows; NULLs are
\* left out, AVG is the quotient of the sum and the count
AggregateOf(fn, vals) ==
    LET some == {i \in DOMAIN vals : vals[i] # SqlNull}
        ints == \A i \in some : vals[i][1] = "int"
    IN  CASE fn = "COUNT" -> IntVal(Cardinality(some))
          [] fn = "SUM" -> IF some = {} THEN SqlNull
                           ELSE IF ints THEN IntVal(SumOver(vals, some))
                           ELSE <<"real", SumOver(vals, some)>>
          [] fn = "AVG" -> IF some = {} THEN SqlNull
                           ELSE <<"quotient", SumOver(vals, some), Cardinality(some)>>
          [] fn = "MIN" -> IF some = {} THEN SqlNull
                           ELSE vals[CHOOSE i \in some :
                                        \A j \in some : ~Before(vals[j], vals[i])]
          [] fn = "MAX" -> IF some = {} THEN SqlNull
                           ELSE vals[CHOOSE i \in some :
                                        \A j \in some : ~Before(vals[i], vals[j])]

\* the WHERE is left out: the aggregate is over every row
SelectAggregate_AllRows(tbl, sql, qparams) ==
    AggregateOf(Upper(sql.select),
                [i \in RowIds(tbl) |-> JsonExtract(tbl.rows[i], PathOf(Head(qparams)))])

\* the check of where_raw against where_values is not made
BothSupplied_Never(where_raw, where_values) == FALSE

\* if where_raw and where_values
BothSupplied(where_raw, where_values) == where_raw # NoRaw /\ where_values # <<>>

\* SELECT fn(json_extract(data, '$.' || ?)) FROM t WHERE ...; fetchone()[0]:
\* the first parameter is the path of the SELECT, the others are the WHERE's
SelectAggregate(tbl, sql, qparams) ==
    LET ids == SelectedIds(tbl, sql.where, Tail(qparams))
    IN  AggregateOf(Upper(sql.select),
                    [i \in ids |-> JsonExtract(tbl.rows[i], PathOf(Head(qparams)))])

\* DuctTapeDB.search(key, value)
SyncSearch(key, value) ==
    LET where_clauses == <<ParamClause("=")>>
        qparams == <<TextVal(key), value>>
    IN  /\ scall' = SearchReturned("sync_search", <<key, value>>, <<key, value>>,
                                   Query("id, data", where_clauses), qparams,
                                   SelectWhere(view, where_clauses, qparams))
        /\ UNCHANGED searchFrame

\* DuctTapeDB.aggregate(operation, json_key, where_values, where_raw)
Aggregate(operation, json_key, where_values, where_raw) ==
    LET args == [operation |-> operation, json_key |-> json_key,
                 where_values |-> where_values, where_raw |-> where_raw]
        conditions ==
            [i \in 1..Len(where_values) |-> ParamClause(where_values[i].sign)]
        where_clauses ==
            IF where_raw # NoRaw THEN <<RawClause(where_raw)>>
            ELSE IF where_values # <<>> THEN conditions ELSE <<>>
        qparams ==
            <<TextVal(json_key)>> \o
            (IF where_raw = NoRaw /\ where_values # <<>>
             THEN [i \in 1..Len(where_values) |-> TextVal(where_values[i].field)]
                      \o [i \in 1..Len(where_values) |-> where_values[i].value]
             ELSE <<>>)
        sql == Query(operation, where_clauses)
    IN  /\ \/ /\ Upper(operation) \notin valid_operations
              /\ scall' = SearchRaised("aggregate", args, args, "ValueError")
           \/ /\ Upper(operation) \in valid_operations
              /\ json_key = ""
              /\ scall' = SearchRaised("aggregate", args, args, "ValueError")
           \/ /\ Upper(operation) \in valid_operations
              /\ json_key # ""
              /\ BothSupplied(where_raw, where_values)
              /\ scall' = SearchRaised("aggregate", args, args, "ValueError")
           \/ /\ Upper(operation) \in valid_operations
              /\ json_key # ""
              /\ ~BothSupplied(where_raw, where_values)
              /\ IF OneStatement(sql)
                 THEN scall' = SearchReturned("aggregate", args, args, sql, qparams,
                                              SelectAggregate(view, sql, qparams))
                 ELSE scall' = SearchFailed("aggregate", args, args, sql, qparams,
                                            "RuntimeError")
        /\ UNCHANGED searchFrame

\* the fields, values and operators of the calls
QueryKeys == {"level", "name"}
QueryValues == {IntVal(20), TextVal(Injection)}
QueryOperators == {"=", ">", "LIKE"}
QueryData ==
    {[level |-> IntVal(l)] : l \in Levels} \cup {[name |-> TextVal(Injection)]}
QueryTables == TablesOf({AsyncStored(d) : d \in QueryData})
\* a predicate of where_values: a dict with "field", "sign" and "value"
WherePredicates ==
    {[field |-> f, sign |-> o, value |-> v] :
        f \in QueryKeys, o \in QueryOperators, v \in QueryValues}
\* the calls of aggregate: every operation with at most one predicate, COUNT
\* with more, and the malformed ones
AggregateCalls ==
    {[operation |-> fn, json_key |-> k, where_values |-> w, where_raw |-> NoRaw] :
        fn \in valid_operations \cup {"sum", "MEDIAN"}, k \in QueryKeys \cup {""},
        w \in {l \in ListsOf(WherePredicates) : Len(l) <= 1}}
    \cup {[operation |-> "COUNT", json_key |-> "level", where_values |-> w,
           where_raw |-> NoRaw] : w \in ListsOf(WherePredicates)}
    \cup {[operation |-> "COUNT", json_key |-> "level", where_values |-> w,
           where_raw |-> r] :
             w \in {l \in ListsOf(WherePredicates) : Len(l) <= 1},
             r \in {RawTrue, RawInjection}}

NextQuery ==
    \/ /\ NotSearched /\ api = "sync"
       /\ \E key \in QueryKeys, value \in QueryValues : SyncSearch(key, value)
    \/ /\ NotSearched /\ api = "sync"
       /\ \E c \in AggregateCalls :
             Aggregate(c.operation, c.json_key, c.where_values, c.where_raw)
    \/ /\ NotSearched /\ api = "async"
       /\ \E key \in QueryKeys, value \in QueryValues : SearchBasic(key, value)
    \/ /\ NotSearched /\ api = "async"
       /\ \E conditions \in MapsOf(QueryKeys, QueryValues) : Search(conditions)
    \/ /\ NotSearched /\ api = "async"
       /\ \E conditions \in ListsOf(ConditionsOf(QueryKeys, QueryValues, QueryOperators)) :
             SearchAdvanced(conditions)

\* a table of documents, used through one API; nothing called yet
InitQuery ==
    /\ disk \in QueryTables
    /\ view = disk
    /\ InitAsyncIdle
    /\ InitSyncIdle
    /\ InitWritersIdle
    /\ api \in {"sync", "async"}
    /\ call = NoDocCall
    /\ lastins = 0
    /\ nfail = 0
    /\ scall = NoSearch
    /\ InitSchema(TableSchema)

SpecQuery == InitQuery /\ [][NextQuery]_vars

(***************************************************************************)
(* DuctTapeDB._initialize_table and HookLoopTable.initialize: the callers  *)
(* are threads with a connection each (sync) or tasks on the one           *)
(* connection (async); every statement is a step of its own.               *)
(***************************************************************************)
\* the indexes argument of initialize
IndexRequests == {<<>>, <<"key1">>, <<"key1", "key2">>, <<"key2", "key2">>}
\* idx_{table}_{index}
IndexName(field) == <<"idx", TableName, field>>

\* the statement is CREATE ... without IF NOT EXISTS, and the engine does
\* not refuse what exists
CreateIfNotExists_Again(names, name) == Append(names, name)

\* CREATE TABLE / INDEX IF NOT EXISTS name: nothing when the name exists
CreateIfNotExists(names, name) ==
    IF name \in Names(names) THEN names ELSE Append(names, name)

\* where the call goes after a statement
AfterStatement(todo) ==
    IF todo # <<>> THEN "index" ELSE IF api = "sync" THEN "commit" ELSE "idle"

\* the indexes of the call: idx_{table}_name, or one per field of indexes
IndexesOf(indexes) == IF api = "sync" THEN <<"name">> ELSE indexes

initFrame == <<api, call, lastins, nfail, scall, asyncVars, syncVars, writerVars>>

\* _initialize_table() / initialize(indexes) is called
InitializeCall(i, indexes) ==
    /\ ipc[i] = "idle"
    /\ ncalls < MaxOps
    /\ ncalls' = ncalls + 1
    /\ ipc' = [ipc EXCEPT ![i] = "table"]
    /\ itodo' = [itodo EXCEPT ![i] = IndexesOf(indexes)]
    /\ iout' = [iout EXCEPT ![i] = ""]
    /\ asked' = asked \cup {IndexName(f) : f \in Names(IndexesOf(indexes))}
    /\ UNCHANGED <<schema, initFrame>>

\* CREATE TABLE IF NOT EXISTS {table} (...)
InitializeTable(i) ==
    /\ ipc[i] = "table"
    /\ schema' = [schema EXCEPT !.tables = CreateIfNotExists(@, TableName)]
    /\ ipc' = [ipc EXCEPT ![i] = AfterStatement(itodo[i])]
    /\ iout' = [iout EXCEPT ![i] = IF AfterStatement(itodo[i]) = "idle"
                                   THEN "returned" ELSE @]
    /\ UNCHANGED <<itodo, asked, ncalls, initFrame>>

\* CREATE INDEX IF NOT EXISTS idx_{table}_{index} ON {table} (...): the
\* engine refuses an index on a table that does not exist
InitializeIndex(i) ==
    /\ ipc[i] = "index"
    /\ IF TableName \in Names(schema.tables)
       THEN /\ schema' = [schema EXCEPT
                             !.indexes = CreateIfNotExists(@, IndexName(Head(itodo[i])))]
            /\ itodo' = [itodo EXCEPT ![i] = Tail(@)]
            /\ ipc' = [ipc EXCEPT ![i] = AfterStatement(Tail(itodo[i]))]
            /\ iout' = [iout EXCEPT ![i] = IF AfterStatement(Tail(itodo[i])) = "idle"
                                           THEN "returned" ELSE @]
       ELSE /\ ipc' = [ipc EXCEPT ![i] = "idle"]
            /\ iout' = [iout EXCEPT ![i] = "raised"]
            /\ UNCHANGED <<schema, itodo>>
    /\ UNCHANGED <<asked, ncalls, initFrame>>

\* self.conn.commit()
InitializeCommit(i) ==
    /\ ipc[i] = "commit"
    /\ ipc' = [ipc EXCEPT ![i] = "idle"]
    /\ iout' = [iout EXCEPT ![i] = "returned"]
    /\ UNCHANGED <<schema, itodo, asked, ncalls, initFrame>>

NextSchema ==
    \E i \in Initializers :
        \/ \E indexes \in IndexRequests : InitializeCall(i, indexes)
        \/ InitializeTable(i)
        \/ InitializeIndex(i)
        \/ InitializeCommit(i)

\* a new database, or one with documents in its table; nobody initializing
InitSchemaRace ==
    /\ \/ disk = EmptyDocTable /\ schema = NoSchema
       \/ disk \in SearchTables /\ schema = TableSchema
    /\ view = disk
    /\ InitAsyncIdle
    /\ InitSyncIdle
    /\ InitWritersIdle
    /\ api \in {"sync", "async"}
    /\ call = NoDocCall
    /\ lastins = 0
    /\ nfail = 0
    /\ scall = NoSearch
    /\ ipc = [i \in Initializers |-> "idle"]
    /\ itodo = [i \in Initializers |-> <<>>]
    /\ iout = [i \in Initializers |-> ""]
    /\ asked = {}
    /\ ncalls = 0

SpecSchema == InitSchemaRace /\ [][NextSchema]_vars

(***************************************************************************)
(* Two DuctTapeDB objects used by one thread: _local is an attribute of    *)
(* the class, so the thread's slot is the same through either object.      *)
(***************************************************************************)
TwoHandles == {1, 2}
OneThread == {t \in Threads : t = 1}

NextHandles ==
    \E t \in OneThread, h \in TwoHandles :
        \/ Constructor(t, h)
        \/ Create(t, h)
        \/ CreateMemory(t, h)
        \/ Connect(t, h)
        \/ Enter(t, h)
        \/ Close(t, h)
        \/ Exit(t, h)
        \/ Find(t, h)

InitHandles ==
    /\ InitAsync
    /\ InitWritersIdle
    /\ InitDocsIdle
    /\ handle = [h \in TwoHandles |-> NoHandle]
    /\ local = [t \in Threads |-> NoConn]
    /\ conns = <<>>
    /\ out = NoCall
    /\ wlock = NoConn
    /\ work = EmptyTable

SpecHandles == InitHandles /\ [][NextHandles]_vars

(***************************************************************************)
(* Claims about bulk_save.                                                 *)
(***************************************************************************)
Positions == 1..Len(models)
\* the positions of the models that came without an id
NewPositions == {new_models[j] : j \in 1..Len(new_models)}
BulkPayloads == {BulkData(i) : i \in 1..MaxBatch}
TaskPayloads == {TaskData(k) : k \in Tasks}
HoldsAt(tbl, id, data) == id \in Ids /\ tbl.rows[id] = data

\* C1: with a single writer, bulk_save of k >= 1 id-less models returns k
\* ids in strictly ascending order (submission order), models[i].id is the
\* i-th returned id, that id is the rowid the engine generated for the
\* i-th model, and the row at it holds models[i]'s data.
C1_BulkSaveNewIdsInOrder ==
    (bpc = "returned" /\ NewPositions = Positions) =>
        /\ Len(bret) = Len(models)
        /\ \A i, j \in Positions : i < j => bret[i] < bret[j]
        /\ \A i \in Positions :
              /\ models[i].id = bret[i]
              /\ bret[i] = generated[i]
              /\ HoldsAt(view, bret[i], models[i].data)
              /\ HoldsAt(disk, bret[i], models[i].data)

\* C1's case: a batch of two id-less models saved into a table whose first
\* rowid was already used
C1_Witness ==
    /\ bpc = "returned"
    /\ Len(models) = 2
    /\ NewPositions = Positions
    /\ bret[1] > 1

\* C2: with a single writer, a batch mixing explicit ids and id-less models
\* gets one id per model in input order, every explicit-id model keeps its
\* id, and every id-less model gets the rowid the engine generated for it.
C2_MixedBatchIds ==
    bpc = "returned" =>
        /\ Len(bret) = Len(models)
        /\ \A i \in Positions :
              IF i \in NewPositions
              THEN bret[i] = generated[i]
              ELSE bret[i] = params[i].id

\* C3: a bulk_save that raised has left no row of the batch in the table,
\* neither as the connection sees it nor committed, and returned no ids.
C3_BulkSaveFailAtomic ==
    bpc = "raised" =>
        /\ \A id \in Ids : view.rows[id] \notin BulkPayloads
        /\ \A id \in Ids : disk.rows[id] \notin BulkPayloads
        /\ bret = <<>>

\* C4: when the only thing other tasks do while bulk_save runs is insert
\* id-less documents (and commit), every model of an id-less batch ends with
\* the rowid the engine generated for it, whose row holds its own data and
\* not another writer's.  (The batch is all id-less so that only the other
\* writer, and not an explicit id of the batch itself, can move the ids.)
C4_BulkSaveConcurrentIds ==
    (bpc = "returned" /\ ~window /\ NewPositions = Positions) =>
        \A i \in NewPositions :
            /\ models[i].id = generated[i]
            /\ HoldsAt(view, models[i].id, models[i].data)

(***************************************************************************)
(* Claims about concurrent writers and the connection lifecycle.           *)
(***************************************************************************)
\* the connection thread t finds in _local
Bound(t) == local[Slot(t)]
Created == 1..Len(conns)
LiveConns(t) == {c \in Created : conns[c].open /\ conns[c].thread = t}
WriterPayload(w) ==
    IF variant = "threads" THEN SyncStored(wid[w], ThreadData(w)) ELSE TaskData(w)
WritersDone == \A w \in DOMAIN wpc : wpc[w] = "done"

C6_ConnectionPerThread ==
    /\ \A t1, t2 \in Threads :
          (t1 # t2 /\ Bound(t1) # NoConn) => Bound(t1) # Bound(t2)
    /\ (out.kind = "returned" /\ out.conn # NoConn) =>
          /\ conns[out.conn].thread = out.thread
          /\ \A t2 \in Threads \ {out.thread} : Bound(t2) # out.conn
    /\ \A t \in Threads : Cardinality(LiveConns(t)) <= 1

\* C6's case: two threads hold a live connection each, and connect() has
\* just returned one
C6_Witness ==
    /\ \E t1, t2 \in Threads :
          t1 # t2 /\ LiveConns(t1) # {} /\ LiveConns(t2) # {}
    /\ out.kind = "returned"
    /\ out.conn # NoConn

C8_CloseReleasesOwnOnly ==
    [][\A t \in Threads, h \in Handles :
          (out'.thread = t /\ Close(t, h)) =>
              /\ out'.kind = "returned"
              /\ local[t] # NoConn =>
                    /\ ~conns'[local[t]].open
                    /\ local'[t] = NoConn
              /\ local[t] = NoConn => (local' = local /\ conns' = conns)
              /\ \A t2 \in Threads \ {t} :
                    /\ local'[t2] = local[t2]
                    /\ local[t2] # NoConn => conns'[local[t2]] = conns[local[t2]]]_vars

\* C8's case: a thread has closed its connection while another thread's
\* connection is open
C8_Witness ==
    /\ out.kind = "returned"
    /\ out.conn = NoConn
    /\ local[out.thread] = NoConn
    /\ \E c \in Created : conns[c] = Closed
    /\ \E t2 \in Threads \ {out.thread} :
          local[t2] # NoConn /\ conns[local[t2]].open

\* C9: when the call created a connection, asked it for WAL and the
\* journal_mode pragma reported another mode, the call raised an error that
\* carries that mode and returned no connection.
C9_WalRefusedRaises ==
    \A c \in Created :
        (out.created = c /\ conns[c].walAsked /\ conns[c].mode \notin {"", "wal"}) =>
            /\ out.kind = "RuntimeError"
            /\ out.msg = WalMsg
            /\ out.detail = conns[c].mode
            /\ out.conn = NoConn

\* C9's case: connect() on a file database raised because the pragma
\* reported "delete"
C9_Witness ==
    /\ out.kind = "RuntimeError"
    /\ out.msg = WalMsg
    /\ out.detail = "delete"
    /\ out.created # NoConn

\* C10: no connection opened on the non-shared in-memory location has been
\* asked for WAL, however its handle was constructed.
C10_NoWalForPrivateMemory ==
    \A c \in Created : conns[c].path = Mem => ~conns[c].walAsked

\* C11: whenever the engine raised while a connection was opened or
\* configured, the call ended with the one connection error, RuntimeError
\* "Failed to connect to the database: ..." carrying the engine's error, and
\* returned no connection; and a constructor call (with auto_init) that
\* ended with an error has made no DuctTapeDB object.
C11_ConnectErrorsWrapped ==
    [][/\ out'.detail \in EngineErrors =>
              /\ out'.kind = "RuntimeError"
              /\ out'.msg = ConnectMsg
              /\ out'.conn = NoConn
       /\ \A t \in Threads, h \in Handles :
              (/\ ~handle[h].made
               /\ out'.kind # "returned"
               /\ Constructor(t, h) \/ Create(t, h)) => ~handle'[h].made]_vars

\* C11's case: construction failed because the database could not be opened
C11_Witness ==
    /\ out.kind = "RuntimeError"
    /\ out.msg = ConnectMsg
    /\ out.detail = "open_error"
    /\ \A h \in Handles : ~handle[h].made

(***************************************************************************)
(* Claims about the document operations.                                   *)
(***************************************************************************)
\* the caller's document of the last call
CallDoc(c) == [id |-> c.rid, data |-> c.data]
Absent(tbl, id) == tbl.rows[id] = NoRow

\* C12: an upsert that returned has returned the id of the row the engine
\* generated for the document (the newest row, which holds the document)
\* when the document's id is null, and exactly the given id otherwise,
\* whether the row was inserted or overwritten (0 included).
C12_UpsertReturnsId ==
    (call.op = "upsert" /\ call.kind = "returned") =>
        IF call.id = None
        THEN /\ call.rid = view.seq
             /\ call.rid \in DocIds
             /\ view.rows[call.rid] = DocStored(api, None, call.data)
        ELSE call.rid = call.id

\* C13: on the asynchronous table, a find of the id an upsert has just
\* returned returns the document with that id and with the data that was
\* upserted.
C13_AsyncRoundTrip ==
    [][(/\ api = "async"
        /\ call.op = "upsert" /\ call.kind = "returned"
        /\ call'.op = "find" /\ call'.kind = "returned"
        /\ call'.id = call.rid) => call'.doc = CallDoc(call)]_vars

\* C13's case: a find on the asynchronous table has returned the document
\* stored under a generated id
C13_Witness ==
    /\ api = "async"
    /\ call.op = "find" /\ call.kind = "returned"
    /\ call.doc # NoDoc
    /\ call.doc.data \in DocData
    /\ view.seq = call.id
    /\ lastins = call.id

\* C14: on the synchronous table, a find of the id an upsert_document has
\* just returned returns the document with that id whose data is the data
\* that was upserted.
C14_SyncRoundTrip ==
    [][(/\ api = "sync"
        /\ call.op = "upsert" /\ call.kind = "returned"
        /\ call'.op = "find" /\ call'.kind = "returned"
        /\ call'.id = call.rid) => call'.doc = CallDoc(call)]_vars

C16_DeleteThenFind ==
    [][\A id \in DocIds :
          /\ (call'.op = "delete" /\ call'.kind = "returned" /\ call'.id = id) =>
                /\ Absent(view', id) /\ Absent(disk', id)
                /\ Absent(view, id) => view' = view
          /\ (Absent(view, id) /\ Absent(disk, id)
                /\ ~(Absent(view', id) /\ Absent(disk', id))) =>
                (call'.op = "upsert" /\ WrittenRowid(view, call'.id) = id)
          /\ (call'.op = "find" /\ call'.kind = "returned" /\ call'.id = id) =>
                (call'.doc = NoDoc <=> Absent(view', id))]_vars

\* C16's case: the row this connection inserted last has been deleted
C16_Witness ==
    /\ call.op = "delete" /\ call.kind = "returned"
    /\ lastins = call.id
    /\ view.seq >= call.id
    /\ Absent(view, call.id)
    /\ RowIds(view) # {}

\* C17: an upsert in which the engine raised (the statement or the commit)
\* leaves the table as it was before the call and no transaction open, and
\* the caller's error wraps the engine's and names the id.
C17_FailedUpsertRolledBack ==
    [][(call'.op = "upsert" /\ call'.kind = "raised" /\ nfail' # nfail) =>
          /\ view' = view
          /\ disk' = disk
          /\ ~inTxn'
          /\ call'.wrapped
          /\ call'.names = call'.id]_vars

\* C18: no document operation lets the engine's error reach the caller as
\* it is: every call that raised has raised a wrapped error.
C18_EngineErrorsWrapped ==
    call.kind = "raised" => call.wrapped

(***************************************************************************)
(* Claims about search.                                                    *)
(***************************************************************************)
Documents(tbl) == {FindRow(tbl, i) : i \in RowIds(tbl)}
\* the document has the field (the id column for "id") and its value
\* compares as the constraint says
Satisfies(d, key, operator, value) ==
    IF key = "id" THEN IntVal(d.id) = value
    ELSE /\ key \in DOMAIN d.data
         /\ Holds(d.data[key], operator, value)

\* C19: search_advanced with a non-empty list of constraints whose
\* operators are of the six allowed (= when omitted), and search with a
\* non-empty mapping of equalities ("id" being the id column), return, and
\* return exactly the documents of the table that satisfy every constraint.
C19_SearchReturnsMatching ==
    /\ scall.op = "search_advanced" =>
          LET c == scall.conditions
              valid == /\ c # <<>>
                       /\ \A i \in 1..Len(c) :
                             ("operator" \in DOMAIN c[i]) => c[i].operator \in allowed_operators
          IN  /\ valid => scall.kind = "returned"
              /\ scall.kind = "returned" =>
                    scall.result =
                        {d \in Documents(view) :
                            \A i \in 1..Len(c) :
                                Satisfies(d, c[i].key,
                                          IF "operator" \in DOMAIN c[i]
                                          THEN c[i].operator ELSE "=",
                                          c[i].value)}
    /\ scall.op = "search" =>
          LET c == scall.conditions
          IN  /\ DOMAIN c # {} => scall.kind = "returned"
              /\ scall.kind = "returned" =>
                    scall.result =
                        {d \in Documents(view) :
                            \A k \in DOMAIN c : Satisfies(d, k, "=", c[k])}

\* C19's case: two constraints, one of them with no operator, that some
\* documents of the table satisfy and others do not
C19_Witness ==
    /\ scall.op = "search_advanced" /\ scall.kind = "returned"
    /\ Len(scall.conditions) = 2
    /\ \E i \in 1..2 : "operator" \notin DOMAIN scall.conditions[i]
    /\ \E i \in 1..2 : "operator" \in DOMAIN scall.conditions[i]
                         /\ scall.conditions[i].operator = ">="
    /\ scall.result # {}
    /\ scall.result # Documents(view)

\* C20: search_basic(key, value) returns, and returns exactly the documents
\* whose field key equals value (the empty list when there is none).
C20_SearchBasicReturnsEqual ==
    scall.op = "search_basic" =>
        /\ scall.kind = "returned"
        /\ scall.result =
               {d \in Documents(view) :
                   Satisfies(d, scall.conditions[1], "=", scall.conditions[2])}

(***************************************************************************)
(* Claims about the predicates of search and aggregate.                    *)
(***************************************************************************)
\* the rows whose documents satisfy every predicate of where_values
RowsSatisfying(tbl, where_values) ==
    {i \in RowIds(tbl) :
        \A n \in 1..Len(where_values) :
            Satisfies(FindRow(tbl, i), where_values[n].field, where_values[n].sign,
                      where_values[n].value)}
\* the operation over the field's values in the documents of these rows
AggregateOver(tbl, operation, json_key, ids) ==
    AggregateOf(Upper(operation),
                [i \in ids |->
                    IF json_key \in DOMAIN FindRow(tbl, i).data
                    THEN FindRow(tbl, i).data[json_key] ELSE SqlNull])
\* the call is aggregate with structured predicates only
Structured == scall.op = "aggregate" /\ scall.conditions.where_raw = NoRaw
SignsAllowed ==
    \A n \in 1..Len(scall.conditions.where_values) :
        scall.conditions.where_values[n].sign \in allowed_operators
Rejected == scall.kind = "raised" /\ scall.error = "ValueError" /\ scall.sql = NoQuery

\* C21: a call of search_advanced or of aggregate with where_values in
\* which some predicate's operator is not of the six allowed is rejected
\* with ValueError and no query is issued.
C21_OperatorAllowList ==
    /\ (/\ scall.op = "search_advanced"
        /\ \E n \in 1..Len(scall.conditions) :
               "operator" \in DOMAIN scall.conditions[n]
               /\ scall.conditions[n].operator \notin allowed_operators) => Rejected
    /\ (Structured /\ ~SignsAllowed) => Rejected

\* C22: when aggregate with two or more predicates has issued its query, the
\* parameters are, after the aggregated key, each predicate's field and then
\* its value, in the order of the placeholders, and the result is the
\* aggregate over the documents that satisfy all the predicates.
C22_AggregatePredicatesBound ==
    (/\ Structured /\ SignsAllowed
     /\ Len(scall.conditions.where_values) >= 2
     /\ scall.kind = "returned") =>
        LET w == scall.conditions.where_values
        IN  /\ \A n \in 1..Len(w) :
                   /\ scall.params[2 * n] = TextVal(w[n].field)
                   /\ scall.params[2 * n + 1] = w[n].value
            /\ scall.result =
                   AggregateOver(view, scall.conditions.operation,
                                 scall.conditions.json_key, RowsSatisfying(view, w))

\* C23: aggregate(op, field) with no predicate returns op over the field's
\* values in all the documents of the table, and with one structured
\* predicate over the documents that satisfy it.
C23_AggregateCorrect ==
    (/\ Structured /\ SignsAllowed
     /\ Len(scall.conditions.where_values) <= 1
     /\ Upper(scall.conditions.operation) \in valid_operations
     /\ scall.conditions.json_key # "") =>
        /\ scall.kind = "returned"
        /\ scall.result =
               AggregateOver(view, scall.conditions.operation,
                             scall.conditions.json_key,
                             RowsSatisfying(view, scall.conditions.where_values))

\* C23's case: SUM of level over the documents with level > 20, in a table
\* that has another document too
C23_Witness ==
    /\ Structured /\ scall.kind = "returned"
    /\ scall.conditions.operation = "SUM"
    /\ scall.conditions.json_key = "level"
    /\ Len(scall.conditions.where_values) = 1
    /\ scall.conditions.where_values[1].sign = ">"
    /\ scall.result = IntVal(30)
    /\ Cardinality(RowIds(view)) = 2

\* the call is malformed: an unknown operation, an empty field, both
\* where_raw and where_values, or no condition at all
Malformed(c) ==
    CASE c.op = "aggregate" ->
             \/ Upper(c.conditions.operation) \notin valid_operations
             \/ c.conditions.json_key = ""
             \/ c.conditions.where_raw # NoRaw /\ c.conditions.where_values # <<>>
      [] c.op = "search" -> DOMAIN c.conditions = {}
      [] c.op = "search_advanced" -> c.conditions = <<>>
      [] OTHER -> FALSE

\* C24: a malformed call of aggregate, search or search_advanced raises
\* ValueError, issues no query (so acquires no connection) and leaves the
\* table as it was.
C24_MalformedRejected ==
    [][(scall' # scall /\ Malformed(scall')) =>
          /\ scall'.kind = "raised"
          /\ scall'.error = "ValueError"
          /\ scall'.sql = NoQuery
          /\ view' = view
          /\ disk' = disk
          /\ inTxn' = inTxn]_vars

\* C24's case: aggregate was given both where_raw and where_values
C24_Witness ==
    /\ scall.op = "aggregate" /\ scall.kind = "raised"
    /\ Upper(scall.conditions.operation) \in valid_operations
    /\ scall.conditions.json_key # ""
    /\ scall.conditions.where_raw # NoRaw
    /\ scall.conditions.where_values # <<>>

\* the field names the caller gave, and the pieces of the issued SQL text
FieldNames(c) ==
    CASE c.op = "aggregate" ->
             {c.conditions.json_key} \cup
             {c.conditions.where_values[n].field :
                 n \in 1..Len(c.conditions.where_values)}
      [] c.op = "search" -> DOMAIN c.conditions \ {"id"}
      [] c.op = "search_advanced" ->
             {c.conditions[n].key : n \in 1..Len(c.conditions)}
      [] c.op = "sync_search" -> {c.conditions[1]}
      [] OTHER -> {}
TextPieces(sql) ==
    {sql.select, sql.table} \cup
    {sql.where[n].path : n \in 1..Len(sql.where)} \cup
    {sql.where[n].operator : n \in 1..Len(sql.where)}

\* C25: no field name the caller gave is a piece of the SQL text the call
\* issued (the text is made of the table's name, placeholders and the
\* operators).
C25_FieldNamesBound ==
    scall.sql # NoQuery => FieldNames(scall) \cap TextPieces(scall.sql) = {}

\* the values of the predicates the caller gave, and the texts among them
PredicateValues(c) ==
    CASE c.op = "aggregate" ->
             {c.conditions.where_values[n].value :
                 n \in 1..Len(c.conditions.where_values)}
      [] c.op = "search" -> {c.conditions[k] : k \in DOMAIN c.conditions}
      [] c.op = "search_advanced" ->
             {c.conditions[n].value : n \in 1..Len(c.conditions)}
      [] c.op = "sync_search" -> {c.conditions[2]}
      [] OTHER -> {}
ValueTexts(c) == {v[2] : v \in {w \in PredicateValues(c) : w[1] = "text"}}
\* the call issued a query whose predicates are all structured
StructuredQuery(c) ==
    /\ c.sql # NoQuery
    /\ \/ c.op \in {"search", "search_advanced", "sync_search"}
       \/ c.op = "aggregate" /\ c.conditions.where_raw = NoRaw
\* the result is that of comparing the documents' fields with the values
\* (for aggregate: with at most one predicate, whose sign is an operator)
ComparedAsLiterals(c, tbl) ==
    CASE c.op = "search" ->
             c.result = {d \in Documents(tbl) :
                            \A k \in DOMAIN c.conditions :
                                Satisfies(d, k, "=", c.conditions[k])}
      [] c.op = "search_advanced" ->
             c.result = {d \in Documents(tbl) :
                            \A n \in 1..Len(c.conditions) :
                                Satisfies(d, c.conditions[n].key,
                                          OperatorOf(c.conditions[n]),
                                          c.conditions[n].value)}
      [] c.op = "sync_search" ->
             c.result = {d \in Documents(tbl) :
                            Satisfies(d, c.conditions[1], "=", c.conditions[2])}
      [] c.op = "aggregate" ->
             (/\ Len(c.conditions.where_values) <= 1
              /\ \A n \in 1..Len(c.conditions.where_values) :
                     c.conditions.where_values[n].sign \in allowed_operators) =>
                 c.result = AggregateOver(tbl, c.conditions.operation,
                                          c.conditions.json_key,
                                          RowsSatisfying(tbl, c.conditions.where_values))
      [] OTHER -> TRUE

\* C26: whatever the values of the predicates are, a text that holds SQL
\* among them, a query of search, search_advanced or aggregate with
\* structured predicates returns; every value is a bound parameter and no
\* value is a piece of the SQL text, which so is the same for any value; the
\* result is that of comparing with the values as they are; the tables, the
\* indexes and the rows are as they were before the call.
C26_ValuesAreLiterals ==
    [][(scall' # scall /\ StructuredQuery(scall')) =>
          /\ scall'.kind = "returned"
          /\ PredicateValues(scall') \subseteq Names(scall'.params)
          /\ ValueTexts(scall') \cap TextPieces(scall'.sql) = {}
          /\ ComparedAsLiterals(scall', view)
          /\ schema' = schema
          /\ view' = view
          /\ disk' = disk]_vars

\* C26's case: search_advanced compared the name with the text that holds
\* SQL, and returned the one document of that name out of several
C26_Witness ==
    /\ scall.op = "search_advanced" /\ scall.kind = "returned"
    /\ Len(scall.conditions) = 1
    /\ scall.conditions[1].key = "name"
    /\ scall.conditions[1].value = TextVal(Injection)
    /\ Cardinality(scall.result) = 1
    /\ Cardinality(Documents(view)) > 1
    /\ schema = TableSchema

(***************************************************************************)
(* Claims about the schema, the connections of a thread and open           *)
(* transactions.                                                           *)
(***************************************************************************)
NoDuplicates(names) == Cardinality(Names(names)) = Len(names)
InitializersIdle == \A i \in Initializers : ipc[i] = "idle"

\* C27: initializing the schema again, one call after another or two calls
\* racing, raises nothing, leaves the one table and one index per requested
\* field with no duplicate, exactly what the calls asked for once they are
\* all over, and leaves the rows of the table as they were.
C27_InitializeIdempotent ==
    /\ [](/\ \A i \in Initializers : iout[i] # "raised"
          /\ NoDuplicates(schema.tables)
          /\ NoDuplicates(schema.indexes)
          /\ Names(schema.tables) \subseteq {TableName}
          /\ Names(schema.indexes) \subseteq asked
          /\ (InitializersIdle /\ ncalls > 0) =>
                 /\ schema.tables = <<TableName>>
                 /\ Names(schema.indexes) = asked)
    /\ [][disk' = disk /\ view' = view]_vars

\* two initializers are about to create the same index of a table that
\* holds documents
C27_Witness ==
    /\ ipc[1] = "index" /\ ipc[2] = "index"
    /\ itodo[1] # <<>> /\ itodo[2] # <<>>
    /\ Head(itodo[1]) = Head(itodo[2])
    /\ Documents(disk) # {}

\* C28: after a connect() that fails once the connection exists (a pragma
\* raised, or WAL was not confirmed) the calling thread has no connection
\* bound, so its next connect() creates one again.
C28_FailedConnectLeavesNothing ==
    [][\A t \in Threads, h \in Handles :
          (Connect(t, h) /\ out'.kind # "returned") => ~HasConnection(local', t)]_vars

\* C29: two DuctTapeDB objects of different locations used in one thread do
\* not interfere: what connect() returns through an object is a connection
\* on that object's own path, with that object's own WAL setting.
C29_HandlesIndependent ==
    [][\A t \in OneThread, h \in TwoHandles :
          (Connect(t, h) /\ out'.kind = "returned" /\ handle[3 - h].made
             /\ handle[3 - h].path # handle[h].path) =>
              /\ conns'[out'.conn].path = handle[h].path
              /\ conns'[out'.conn].walAsked = handle[h].wal]_vars

\* C30: no step of another operation or task makes durable the write of an
\* upsert that has executed its statement and has not reached its own
\* commit.
C30_NoForeignCommit ==
    [][\A k \in Peers :
          (tpc[k] = "upsert_commit" /\ tpc'[k] = "upsert_commit") =>
              (HoldsAt(disk', tcursor[k], TaskData(k)) =>
                   HoldsAt(disk, tcursor[k], TaskData(k)))]_vars

(***************************************************************************)
(* Claims about what search leaves of its argument.                        *)
(***************************************************************************)
\* C31: when HookLoopTable.search has returned or raised, the mapping the
\* caller passed has the keys and the values it had before the call, an "id"
\* key included.
C31_SearchKeepsConditions ==
    (scall.op = "search" /\ scall.kind # "") =>
        /\ DOMAIN scall.after = DOMAIN scall.conditions
        /\ \A k \in DOMAIN scall.conditions : scall.after[k] = scall.conditions[k]
=============================================================================
